---- MODULE Spec2Model ----
(***************************************************************************)
(* Model of pandera/typing/common.py: the patched _GenericAlias.__call__,  *)
(* DataFrameBase.__setattr__ and AnnotationInfo._parse_annotation.         *)
(***************************************************************************)
EXTENDS Integers, Sequences, FiniteSets, TLC

VARIABLES
    hostCatchesAll, \* host runtime: the original __call__ ignores every Exception
    ops,            \* operations performed so far in this run
    alias,          \* the generic alias of the last call / the last assigned value
    inst,           \* the instance under observation: [cls, dict] or NoInst
    heap,           \* accessor objects: accessor id -> the schema it carries
    outcome,        \* what the last operation did
    annotation,     \* the annotation handed to AnnotationInfo
    info            \* the AnnotationInfo fields after construction

vars == <<hostCatchesAll, ops, alias, inst, heap, outcome, annotation, info>>
callVars == <<hostCatchesAll, ops, alias, inst, heap, outcome>>
annVars == <<annotation, info>>

\* Operations (calls and attribute assignments) in one run.
MaxOps == 2

----------------------------------------------------------------------------
(* Classes: __bases__, issubclass and the MRO names of type arguments.     *)

Bases ==
    [ object        |-> {},
      Generic       |-> {"object"},
      PdDataFrame   |-> {"object"},
      DataFrameBase |-> {"Generic"},
      DataFrame     |-> {"DataFrameBase", "PdDataFrame", "Generic"},
      MyDataFrame   |-> {"DataFrame"},
      Box           |-> {"Generic"},
      SeriesBase    |-> {"Generic"},
      IndexBase     |-> {"Generic"},
      Series        |-> {"SeriesBase", "Generic"},
      Index         |-> {"IndexBase", "Generic"},
      int           |-> {"object"},
      NoneType      |-> {"object"},
      DatetimeTZDtype |-> {"object"} ]

RECURSIVE Ancestors(_)
Ancestors(c) == {c} \cup UNION {Ancestors(b) : b \in Bases[c]}

\* issubclass(c, base)
IsSubclass(c, base) == base \in Ancestors(c)

\* The origins of the generic aliases that get called.
Origins == {"DataFrameBase", "DataFrame", "MyDataFrame", "Box"}

\* Type arguments. A class has an MRO; T is a TypeVar, which is no class.
TypeArgs == {"Schema", "SubSchema", "int", "T"}

IsClass(t) == t # "T"

\* inspect.getmro(t), as the names of the classes
Mro(t) ==
    CASE t = "Schema"    -> <<"Schema", "DataFrameModel", "BaseModel", "object">>
      [] t = "SubSchema" -> <<"SubSchema", "Schema", "DataFrameModel", "BaseModel", "object">>
      [] t = "int"       -> <<"int", "object">>
      [] OTHER           -> <<>>

\* schema_model.to_schema(): the schema a model builds
ToSchema(t) == IF t = "Schema" THEN "S1" ELSE "S2"

Schemas == {"S1", "S2"}

\* Exceptions, by the names of the classes of their MRO.
ExcMro(e) ==
    CASE e = "KeyboardInterrupt" -> {"KeyboardInterrupt", "BaseException"}
      [] OTHER                   -> {e, "Exception", "BaseException"}

\* isinstance(e, cls)
IsInstance(e, cls) == cls \in ExcMro(e)

\* What the collaborators (to_schema, validate) may raise.
EnvExc == {"none", "TypeError", "SchemaError", "SchemaInitError",
           "SchemaDefinitionError", "SchemaErrors", "KeyboardInterrupt"}

\* What the origin's constructor may raise.
CtorExc == {"none", "ValueError"}

----------------------------------------------------------------------------
(* Values.                                                                 *)

NoAttr == "NoAttr"          \* the attribute is absent (getattr default None)
AccessorIds == {"a0", "a1"}

NoAlias == [name |-> "none", origin |-> "none", inst |-> FALSE,
            hasArgs |-> FALSE, args |-> <<>>]

\* DataFrameBase is Generic[T]: a parameterized alias has exactly one argument.
Aliases ==
    { [name |-> o, origin |-> o, inst |-> i, hasArgs |-> TRUE, args |-> <<t>>] :
        o \in Origins, i \in BOOLEAN, t \in TypeArgs }

\* Values assigned to __orig_class__ directly may carry no __args__ at all.
Values == Aliases \cup
    { [name |-> o, origin |-> o, inst |-> TRUE, hasArgs |-> FALSE, args |-> <<>>] :
        o \in {"DataFrame"} }

NoInst == [cls |-> "none",
           dict |-> [data |-> "none", orig_class |-> NoAlias,
                     pandera |-> NoAttr, other |-> NoAlias]]

EmptyHeap == [a \in AccessorIds |-> "None"]

NoMsg == <<>>

NoOutcome ==
    [op |-> "none", delegated |-> FALSE, constructed |-> FALSE,
     returned |-> FALSE, raised |-> "none", msg |-> NoMsg,
     attachExc |-> "none", swallowed |-> "none",
     toSchemaCalls |-> 0, validateCalls |-> 0, updateCalls |-> 0,
     addSchemaCalls |-> 0, schema |-> "NoSchema",
     priorAccessor |-> NoAttr, priorSchema |-> "None", priorData |-> "none"]

\* What the environment decides during one operation.
Envs ==
    [ctorExc : CtorExc,
     initSchema : {"NoAccessor", "None"} \cup Schemas,
     toSchemaExc : EnvExc,
     validateExc : EnvExc,
     validatedAccessor : {"keep", "fresh"}]

----------------------------------------------------------------------------
(* DataFrameBase.__setattr__                                               *)

SetAttrResult(d, h, exc, schema, nToSchema, nValidate, nUpdate, nAdd) ==
    [dict |-> d, heap |-> h, exc |-> exc, schema |-> schema,
     toSchemaCalls |-> nToSchema, validateCalls |-> nValidate,
     updateCalls |-> nUpdate, addSchemaCalls |-> nAdd]

\* object.__setattr__(self, name, value)
ObjectSetAttr(d, name, value) ==
    IF name = "__orig_class__"
    THEN [d EXCEPT !.orig_class = value]
    ELSE [d EXCEPT !.other = value]

\* Locating the schema model in the type argument: "ok", or the exception
\* raised. inspect.getmro reads __mro__, which only a class has.
FindSchemaModel(value) ==
    IF ~value.hasArgs THEN "TypeError"
    ELSE IF ~IsClass(value.args[1]) THEN "AttributeError"
    ELSE IF \E i \in DOMAIN Mro(value.args[1]) :
                Mro(value.args[1])[i] = "DataFrameModel"
         THEN "ok"
         ELSE "TypeError"

NeedsValidationAlways(d, h, schema) == TRUE

\* The guard against double validation.
NeedsValidation(d, h, schema) ==
    \/ d.pandera = NoAttr
    \/ h[d.pandera] = "None"
    \/ h[d.pandera] # schema

\* An accessor id that the instance does not hold.
FreshAccessor(d) == IF d.pandera = "a1" THEN "a0" ELSE "a1"

\* schema.validate(self).__dict__: the validated data and, when the result
\* holds an accessor of its own, that accessor, which carries the schema.
ValidatedDict(d, schema, env) ==
    [data |-> "validated",
     pandera |-> IF env.validatedAccessor = "fresh"
                 THEN FreshAccessor(d) ELSE NoAttr]

\* self.__dict__.update(other): the keys of other overwrite those of self.
DictUpdate(d, r) ==
    [d EXCEPT !.data = r.data,
              !.pandera = IF r.pandera = NoAttr THEN d.pandera ELSE r.pandera]

AddSchemaSkipped(h, acc, schema) == h

\* pandera_accessor.add_schema(schema)
AddSchema(h, acc, schema) == [h EXCEPT ![acc] = schema]

\* Validate, replace the state and attach the schema.
ValidateAndAttach(d, h, schema, env) ==
    IF env.validateExc # "none"
    THEN SetAttrResult(d, h, env.validateExc, schema, 1, 1, 0, 0)
    ELSE LET r  == ValidatedDict(d, schema, env)
             h1 == IF r.pandera = NoAttr THEN h
                   ELSE [h EXCEPT ![r.pandera] = schema]
             d2 == DictUpdate(d, r)
             acc == IF d.pandera = NoAttr THEN d2.pandera ELSE d.pandera
         IN  IF acc = NoAttr
             THEN SetAttrResult(d2, h1, "AttributeError", schema, 1, 1, 1, 0)
             ELSE SetAttrResult(d2, AddSchema(h1, acc, schema), "none",
                                schema, 1, 1, 1, 1)

SetAttr(d, h, name, value, env) ==
    LET d1 == ObjectSetAttr(d, name, value)
    IN  IF name # "__orig_class__"
        THEN SetAttrResult(d1, h, "none", "NoSchema", 0, 0, 0, 0)
        ELSE LET found == FindSchemaModel(value)
             IN  IF found # "ok"
                 THEN SetAttrResult(d1, h, found, "NoSchema", 0, 0, 0, 0)
                 ELSE IF env.toSchemaExc # "none"
                 THEN SetAttrResult(d1, h, env.toSchemaExc, "NoSchema", 1, 0, 0, 0)
                 ELSE LET schema == ToSchema(value.args[1])
                      IN  IF NeedsValidation(d1, h, schema)
                          THEN ValidateAndAttach(d1, h, schema, env)
                          ELSE SetAttrResult(d1, h, "none", schema, 1, 0, 0, 0)

\* Attribute assignment on an instance of class cls: only the subclasses of
\* DataFrameBase inherit its __setattr__.
InstanceSetAttr(cls, d, h, name, value, env) ==
    IF IsSubclass(cls, "DataFrameBase")
    THEN SetAttr(d, h, name, value, env)
    ELSE SetAttrResult(ObjectSetAttr(d, name, value), h, "none", "NoSchema",
                       0, 0, 0, 0)

----------------------------------------------------------------------------
(* The patched _GenericAlias.__call__ and the original it delegates to.    *)

PatchedErrors == {"TypeError", "SchemaError", "SchemaInitError",
                  "SchemaDefinitionError"}

PatchedPropagatesTypeErrorOnly(e) ==
    \/ IsInstance(e, "TypeError")
    \/ ~IsInstance(e, "Exception")

\* Whether the patched call lets e, raised by the assignment, escape.
PatchedPropagates(e) ==
    \/ \E c \in PatchedErrors : IsInstance(e, c)
    \/ ~IsInstance(e, "Exception")

\* Whether the original call lets e, raised by the assignment, escape.
HostPropagates(catchesAll, e) ==
    IF catchesAll THEN ~IsInstance(e, "Exception")
    ELSE ~IsInstance(e, "AttributeError")

NotInstantiableNever(a) == FALSE

\* if not self._inst
NotInstantiable(a) == ~a.inst

CannotInstantiateMsg(a) ==
    <<"Type ", a.name, " cannot be instantiated; use ", a.origin, "() instead">>

\* DataFrameBase not in self.__origin__.__bases__
Delegates(a) == "DataFrameBase" \notin Bases[a.origin]

\* self.__origin__(*args, **kwargs): the new instance and its accessor
Construct(a, env) ==
    [inst |-> [cls |-> a.origin,
               dict |-> [data |-> "raw", orig_class |-> NoAlias,
                         pandera |-> IF env.initSchema = "NoAccessor"
                                     THEN NoAttr ELSE "a0",
                         other |-> NoAlias]],
     heap |-> [EmptyHeap EXCEPT !["a0"] =
                  IF env.initSchema = "NoAccessor" THEN "None"
                  ELSE env.initSchema]]

CallResult(i, h, o) == [inst |-> i, heap |-> h, outcome |-> o]

\* The except clauses around the assignment: those of the original call
\* when the call was delegated, those of the patched call otherwise.
Escapes(delegated, catchesAll, e) ==
    IF delegated THEN HostPropagates(catchesAll, e) ELSE PatchedPropagates(e)

\* The part the two calls share: the _inst check, the construction and the
\* assignment of __orig_class__.
InstantiateAndRecord(a, env, delegated, catchesAll) ==
    LET base == [NoOutcome EXCEPT !.op = "call", !.delegated = delegated]
    IN  IF NotInstantiable(a)
        THEN CallResult(NoInst, EmptyHeap,
                 [base EXCEPT !.raised = "TypeError",
                              !.msg = CannotInstantiateMsg(a)])
        ELSE IF env.ctorExc # "none"
        THEN CallResult(NoInst, EmptyHeap, [base EXCEPT !.raised = env.ctorExc])
        ELSE LET c == Construct(a, env)
                 r == InstanceSetAttr(a.origin, c.inst.dict, c.heap,
                                      "__orig_class__", a, env)
                 o == [base EXCEPT
                          !.constructed = TRUE,
                          !.attachExc = r.exc,
                          !.toSchemaCalls = r.toSchemaCalls,
                          !.validateCalls = r.validateCalls,
                          !.updateCalls = r.updateCalls,
                          !.addSchemaCalls = r.addSchemaCalls,
                          !.schema = r.schema,
                          !.priorAccessor = c.inst.dict.pandera,
                          !.priorSchema = c.heap["a0"],
                          !.priorData = c.inst.dict.data]
             IN  IF r.exc # "none" /\ Escapes(delegated, catchesAll, r.exc)
                 THEN CallResult(NoInst, EmptyHeap, [o EXCEPT !.raised = r.exc])
                 ELSE CallResult([cls |-> a.origin, dict |-> r.dict], r.heap,
                          [o EXCEPT !.returned = TRUE, !.swallowed = r.exc])

\* __orig_generic_alias_call: the host's _GenericAlias.__call__
OrigCall(a, env, catchesAll) ==
    InstantiateAndRecord(a, env, TRUE, catchesAll)

\* __patched_generic_alias_call
PatchedCall(a, env, catchesAll) ==
    IF Delegates(a)
    THEN OrigCall(a, env, catchesAll)
    ELSE InstantiateAndRecord(a, env, FALSE, catchesAll)

----------------------------------------------------------------------------
(* Annotations, as typing_inspect and inspect see them.                    *)

\* Members of an optional / union annotation.
MaxUnionLen == 3
\* Values of a literal annotation.
MaxLiteralLen == 2

Ann(kind, name, args, meta) ==
    [kind |-> kind, name |-> name, args |-> args, meta |-> meta]

PyNone == Ann("pynone", "None", <<>>, <<>>)       \* the value None
AnyType == Ann("special", "Any", <<>>, <<>>)      \* typing.Any
Cls(n) == Ann("class", n, <<>>, <<>>)             \* a bare class
NoneTypeCls == Cls("NoneType")                    \* type(None)
TypeVarT == Ann("typevar", "T", <<>>, <<>>)       \* a TypeVar
Val(v) == Ann("value", v, <<>>, <<>>)             \* a value of a Literal
GenericOf(o, xs) == Ann("generic", o, xs, <<>>)   \* o[xs]
LiteralOf(vs) == Ann("literal", "Literal", vs, <<>>)
AnnotatedOf(x, m) == Ann("annotated", "Annotated", <<x>>, m)
UnionOf(xs) == Ann("union", "Union", xs, <<>>)

\* Sequences of 1..n distinct members of S.
DistinctSeqs(S, lo, hi) ==
    UNION { { q \in [1..n -> S] : \A i, j \in 1..n : i # j => q[i] # q[j] } :
            n \in lo..hi }

AtomAnnotations ==
    {Cls("int"), Cls("DatetimeTZDtype"), Cls("Series"), Cls("Index"),
     NoneTypeCls, TypeVarT}

LiteralAnnotations ==
    {LiteralOf(vs) : vs \in DistinctSeqs({Val("a"), Val("b"), Val("c")}, 1, MaxLiteralLen)}

AnnotatedAnnotations ==
    {AnnotatedOf(x, <<"m">>) :
        x \in {Cls("int"), Cls("DatetimeTZDtype"), TypeVarT,
               LiteralOf(<<Val("a")>>)}}

GenericAnnotations ==
    {GenericOf(o, <<x>>) :
        o \in {"Series", "Index"},
        x \in {Cls("int"), TypeVarT} \cup LiteralAnnotations
              \cup AnnotatedAnnotations}

UnionMembers ==
    {Cls("int"), NoneTypeCls, GenericOf("Series", <<Cls("int")>>),
     LiteralOf(<<Val("a")>>), AnnotatedOf(Cls("int"), <<"m">>)}

\* Union[...] keeps the order in which its members were written.
UnionAnnotations ==
    {UnionOf(xs) : xs \in DistinctSeqs(UnionMembers, 2, MaxUnionLen)}

Annotations ==
    AtomAnnotations \cup LiteralAnnotations \cup AnnotatedAnnotations
        \cup GenericAnnotations \cup UnionAnnotations

\* typing_inspect.is_union_type
IsUnionType(tp) == tp.kind = "union"

\* typing_inspect.get_args
GetArgs(tp) ==
    IF tp.kind \in {"generic", "annotated", "literal", "union"}
    THEN tp.args ELSE <<>>

\* typing_inspect.is_optional_type
RECURSIVE IsOptionalType(_)
IsOptionalType(tp) ==
    \/ tp = NoneTypeCls
    \/ /\ IsUnionType(tp)
       /\ \E i \in DOMAIN GetArgs(tp) : IsOptionalType(GetArgs(tp)[i])

\* typing_inspect.get_origin
GetOrigin(tp) ==
    CASE tp.kind = "generic"   -> Cls(tp.name)
      [] tp.kind = "annotated" -> tp.args[1]
      [] tp.kind = "literal"   -> Ann("special", "Literal", <<>>, <<>>)
      [] tp.kind = "union"     -> Ann("special", "Union", <<>>, <<>>)
      [] OTHER                 -> PyNone

\* typing_inspect.is_literal_type
IsLiteralType(tp) == tp.kind = "literal"

\* getattr(x, "__metadata__", None); <<>> stands for None
GetMetadata(x) == IF x.kind = "annotated" THEN x.meta ELSE <<>>

\* inspect.signature(x): "ok", or the exception it raises. A builtin class
\* has no signature (ValueError); what is not callable is a TypeError.
Signature(x) ==
    CASE x.kind = "class" ->
            IF x.name \in {"int", "NoneType"} THEN "ValueError" ELSE "ok"
      [] x.kind \in {"generic", "annotated", "literal", "union"} -> "ok"
      [] OTHER -> "TypeError"

\* getattr(raw_annotation, "default_dtype", None): the class attribute of
\* SeriesBase and IndexBase is None, and an alias forwards to its origin.
DefaultDtype(tp) == PyNone

----------------------------------------------------------------------------
(* AnnotationInfo                                                          *)

AllFields == {"raw_annotation", "origin", "args", "arg", "optional",
              "literal", "is_annotated_type", "metadata", "default_dtype"}

\* The fields before __init__ ran. For args and metadata, <<>> stands for
\* None (get_args(...) or None; no Annotated has empty metadata).
InfoIdle ==
    [raised |-> "unset", assigned |-> {},
     raw_annotation |-> PyNone, origin |-> PyNone, args |-> <<>>,
     arg |-> PyNone, optional |-> FALSE, literal |-> FALSE,
     is_annotated_type |-> FALSE, metadata |-> <<>>,
     default_dtype |-> PyNone]

AnnIdle == PyNone

\* The member of an optional that parsing goes on with.
UnwrapOptional(tp) == GetArgs(tp)[1]

LiteralArgKept(arg) == arg

\* The argument of a literal annotation.
LiteralArg(arg) == GetArgs(arg)[1]

BareArgItself(raw) == raw

\* The argument of an annotation with no origin and no metadata.
BareArg(raw) ==
    IF raw.kind = "class" /\ IsSubclass(raw.name, "SeriesBase")
    THEN AnyType
    ELSE raw

\* AnnotationInfo._parse_annotation
ParseAnnotation(raw_annotation) ==
    LET optional == IsOptionalType(raw_annotation)
        raw == IF optional /\ IsUnionType(raw_annotation)
               THEN UnwrapOptional(raw_annotation)
               ELSE raw_annotation
        origin == GetOrigin(raw)
        args == GetArgs(raw)
        arg0 == IF args # <<>> THEN args[1] ELSE PyNone
        meta0 == GetMetadata(raw)
        sig == IF meta0 # <<>> THEN Signature(arg0) ELSE "ok"
        metadata == IF meta0 # <<>>
                    THEN (IF sig = "ValueError" THEN <<>> ELSE meta0)
                    ELSE GetMetadata(arg0)
        arg1 == IF meta0 = <<>> /\ GetMetadata(arg0) # <<>>
                THEN GetArgs(arg0)[1]
                ELSE arg0
        literal == IsLiteralType(arg1)
        arg2 == IF literal THEN LiteralArg(arg1)
                ELSE IF origin = PyNone /\ metadata = <<>> THEN BareArg(raw)
                ELSE arg1
        early == [InfoIdle EXCEPT
                     !.raw_annotation = raw, !.origin = origin,
                     !.args = args, !.arg = arg0, !.optional = optional,
                     !.is_annotated_type = (meta0 # <<>>)]
    IN  IF sig = "TypeError"
        THEN [early EXCEPT !.raised = "TypeError",
                           !.assigned = AllFields \ {"metadata", "literal",
                                                     "default_dtype"}]
        ELSE [early EXCEPT !.raised = "none", !.assigned = AllFields,
                           !.metadata = metadata, !.literal = literal,
                           !.arg = arg2,
                           !.default_dtype = DefaultDtype(raw)]

\* AnnotationInfo(raw_annotation)
NewAnnotationInfo ==
    /\ \E a \in Annotations :
          /\ annotation' = a
          /\ info' = ParseAnnotation(a)
    /\ UNCHANGED callVars

NextAnn == NewAnnotationInfo

----------------------------------------------------------------------------
(* Operations on generic aliases and instances.                            *)

\* The values assigned to __orig_class__ by hand.
AssignedValues == {v \in Values : v.origin = "DataFrame" /\ v.inst}

InitCall ==
    /\ hostCatchesAll \in BOOLEAN
    /\ ops = 0
    /\ alias = NoAlias
    /\ inst = NoInst
    /\ heap = EmptyHeap
    /\ outcome = NoOutcome

Init ==
    /\ InitCall
    /\ annotation = AnnIdle
    /\ info = InfoIdle

\* alias(*args, **kwargs)
Call ==
    /\ ops = 0
    /\ \E a \in Aliases, env \in Envs :
          LET r == PatchedCall(a, env, hostCatchesAll)
          IN  /\ alias' = a
              /\ inst' = r.inst
              /\ heap' = r.heap
              /\ outcome' = r.outcome
    /\ ops' = ops + 1
    /\ UNCHANGED <<hostCatchesAll, annVars>>

\* No construction happens here, and no except clause tells the exceptions
\* apart: one exception for each collaborator that may raise.
SetAttrEnvs ==
    [ctorExc : {"none"},
     initSchema : {"None"},
     toSchemaExc : {"none", "SchemaInitError"},
     validateExc : {"none", "SchemaError"},
     validatedAccessor : {"keep", "fresh"}]

\* instance.__orig_class__ = value, outside any call: an exception reaches
\* the assigning code, and the instance keeps what was done before it.
SetOrigClass ==
    /\ ops > 0
    /\ ops < MaxOps
    /\ inst # NoInst
    /\ \E v \in AssignedValues, env \in SetAttrEnvs :
          LET r == InstanceSetAttr(inst.cls, inst.dict, heap,
                                   "__orig_class__", v, env)
          IN  /\ alias' = v
              /\ inst' = [inst EXCEPT !.dict = r.dict]
              /\ heap' = r.heap
              /\ outcome' =
                    [NoOutcome EXCEPT
                        !.op = "setattr",
                        !.returned = (r.exc = "none"),
                        !.raised = r.exc,
                        !.attachExc = r.exc,
                        !.toSchemaCalls = r.toSchemaCalls,
                        !.validateCalls = r.validateCalls,
                        !.updateCalls = r.updateCalls,
                        !.addSchemaCalls = r.addSchemaCalls,
                        !.schema = r.schema,
                        !.priorAccessor = inst.dict.pandera,
                        !.priorSchema = IF inst.dict.pandera = NoAttr
                                        THEN "None"
                                        ELSE heap[inst.dict.pandera],
                        !.priorData = inst.dict.data]
    /\ ops' = ops + 1
    /\ UNCHANGED <<hostCatchesAll, annVars>>

\* instance.<any other name> = value
SetOtherAttr ==
    /\ ops > 0
    /\ ops < MaxOps
    /\ inst # NoInst
    /\ \E v \in AssignedValues :
          LET env == CHOOSE e \in SetAttrEnvs : TRUE
              r == InstanceSetAttr(inst.cls, inst.dict, heap, "other", v, env)
          IN  /\ alias' = v
              /\ inst' = [inst EXCEPT !.dict = r.dict]
              /\ heap' = r.heap
              /\ outcome' =
                    [NoOutcome EXCEPT
                        !.op = "setother",
                        !.returned = TRUE,
                        !.toSchemaCalls = r.toSchemaCalls,
                        !.validateCalls = r.validateCalls,
                        !.updateCalls = r.updateCalls,
                        !.addSchemaCalls = r.addSchemaCalls,
                        !.priorAccessor = inst.dict.pandera,
                        !.priorSchema = IF inst.dict.pandera = NoAttr
                                        THEN "None"
                                        ELSE heap[inst.dict.pandera],
                        !.priorData = inst.dict.data]
    /\ ops' = ops + 1
    /\ UNCHANGED <<hostCatchesAll, annVars>>

Next == Call \/ SetOrigClass \/ SetOtherAttr

Spec == Init /\ [][Next]_vars

----------------------------------------------------------------------------
(* Properties of the patched call and of DataFrameBase.__setattr__.        *)

\* The alias names a subtype of DataFrameBase (issubclass).
IsDataFrameGeneric == IsSubclass(alias.origin, "DataFrameBase")

\* The type argument is a recognized schema model: a class named
\* DataFrameModel is in its class hierarchy.
Recognized(a) ==
    /\ a.hasArgs
    /\ \E i \in DOMAIN Mro(a.args[1]) : Mro(a.args[1])[i] = "DataFrameModel"

\* The instance's accessor carries schema s.
Carries(s) ==
    /\ inst # NoInst
    /\ inst.dict.pandera # NoAttr
    /\ heap[inst.dict.pandera] = s

\* C1: when __orig_class__ is recorded on an instance whose accessor already
\* carries a schema equal to the built one, validate is not invoked, the
\* instance's state is not replaced and add_schema is not called; validate
\* runs only when the accessor is missing, carries no schema or carries a
\* different one.
C1_NoDoubleValidation ==
    (outcome.op \in {"call", "setattr"} /\ outcome.schema # "NoSchema") =>
        /\ (outcome.priorAccessor # NoAttr /\ outcome.priorSchema = outcome.schema)
              => /\ outcome.validateCalls = 0
                 /\ outcome.updateCalls = 0
                 /\ outcome.addSchemaCalls = 0
                 /\ inst # NoInst
                 /\ inst.dict.data = outcome.priorData
                 /\ inst.dict.pandera = outcome.priorAccessor
                 /\ heap[inst.dict.pandera] = outcome.priorSchema
        /\ outcome.validateCalls > 0
              => \/ outcome.priorAccessor = NoAttr
                 \/ outcome.priorSchema = "None"
                 \/ outcome.priorSchema # outcome.schema

\* A parameterized DataFrame generic instantiated on data that already
\* carries the identical schema: returned without a validation.
C1_Witness ==
    /\ outcome.op = "call"
    /\ ~outcome.delegated
    /\ outcome.returned
    /\ outcome.priorAccessor # NoAttr
    /\ outcome.schema \in Schemas
    /\ outcome.priorSchema = outcome.schema
    /\ outcome.validateCalls = 0

\* The assignment of result.__orig_class__ in the patched call raised.
AttachRaised ==
    /\ outcome.op = "call"
    /\ ~outcome.delegated
    /\ outcome.attachExc # "none"

Propagated == outcome.raised = outcome.attachExc /\ ~outcome.returned /\ inst = NoInst

Swallowed ==
    /\ outcome.raised = "none"
    /\ outcome.swallowed = outcome.attachExc
    /\ outcome.returned
    /\ inst # NoInst

IsPatchedError(e) == \E c \in PatchedErrors : IsInstance(e, c)

\* C2, as claimed: an exception raised while assigning __orig_class__
\* propagates if it is a TypeError, SchemaError, SchemaInitError or
\* SchemaDefinitionError, and any other exception is swallowed and the
\* instance returned.
C2_AnyOtherSwallowed ==
    AttachRaised =>
        IF IsPatchedError(outcome.attachExc) THEN Propagated ELSE Swallowed

\* C2, amended: the four kinds propagate; any other exception that is an
\* Exception is swallowed and the instance returned; an exception that is
\* only a BaseException (KeyboardInterrupt) propagates.
C2_OtherExceptionsSwallowed ==
    AttachRaised =>
        IF IsPatchedError(outcome.attachExc) THEN Propagated
        ELSE IF IsInstance(outcome.attachExc, "Exception") THEN Swallowed
        ELSE Propagated

\* validate raised SchemaErrors, which is none of the four: swallowed.
C2_Witness ==
    /\ AttachRaised
    /\ outcome.attachExc = "SchemaErrors"
    /\ outcome.validateCalls = 1
    /\ Swallowed

\* C3, as claimed: the call delegates to the original __call__ exactly when
\* the origin is not a subtype of DataFrameBase.
C3_DelegatesIffNotSubtype ==
    outcome.op = "call" => (outcome.delegated <=> ~IsDataFrameGeneric)

\* C4: calling a DataFrame generic alias whose _inst is false raises a
\* TypeError that names the alias and "use <origin>() instead", before the
\* origin is constructed: no instance, no __orig_class__, no schema built,
\* no validation.
C4_NotInstantiableRaises ==
    (outcome.op = "call" /\ IsDataFrameGeneric /\ ~alias.inst) =>
        /\ outcome.raised = "TypeError"
        /\ outcome.msg = <<"Type ", alias.name, " cannot be instantiated; use ",
                           alias.origin, "() instead">>
        /\ ~outcome.constructed
        /\ ~outcome.returned
        /\ inst = NoInst
        /\ outcome.attachExc = "none"
        /\ outcome.toSchemaCalls = 0
        /\ outcome.validateCalls = 0

C4_Witness ==
    /\ outcome.op = "call"
    /\ alias.origin = "DataFrame"
    /\ ~alias.inst
    /\ ~outcome.delegated
    /\ outcome.raised = "TypeError"
    /\ outcome.msg # NoMsg

\* C5, as claimed: instantiating a parameterized DataFrame generic whose
\* type argument is not a recognized schema model surfaces a TypeError, for
\* every such argument, and to_schema and validate are never invoked.
C5_UnrecognizedRaisesTypeError ==
    (outcome.op = "call" /\ ~outcome.delegated /\ outcome.constructed
        /\ ~Recognized(alias)) =>
        /\ outcome.raised = "TypeError"
        /\ ~outcome.returned
        /\ outcome.toSchemaCalls = 0
        /\ outcome.validateCalls = 0

\* The schema built from the alias's type argument is on the accessor.
CarriesBuiltSchema == Recognized(alias) /\ Carries(ToSchema(alias.args[1]))

\* C10, as claimed: every instance the patched call returns from a
\* parameterized DataFrame generic carries the schema built from its type
\* argument; none is returned after a validation that did not complete.
C10_ReturnedIsValidated ==
    (outcome.op = "call" /\ ~outcome.delegated /\ outcome.returned
        /\ Recognized(alias)) => CarriesBuiltSchema

\* C10, amended: every instance the call returns from a parameterized
\* DataFrame generic either carries the schema built from its type argument
\* (it did already, or validate ran, the state was replaced and add_schema
\* attached it), or an exception raised while recording __orig_class__ was
\* swallowed.
C10_ValidatedUnlessSwallowed ==
    (outcome.op = "call" /\ outcome.returned /\ IsDataFrameGeneric) =>
        \/ outcome.swallowed # "none"
        \/ /\ CarriesBuiltSchema
           /\ outcome.schema = ToSchema(alias.args[1])
           /\ \/ /\ outcome.validateCalls = 0
                 /\ outcome.priorSchema = outcome.schema
              \/ /\ outcome.validateCalls = 1
                 /\ outcome.updateCalls = 1
                 /\ outcome.addSchemaCalls = 1
                 /\ inst.dict.data = "validated"

\* An instance returned after validate ran and add_schema attached the
\* schema to the accessor the instance already had.
C10_Witness ==
    /\ outcome.op = "call"
    /\ outcome.returned
    /\ alias.origin = "DataFrame"
    /\ outcome.swallowed = "none"
    /\ outcome.validateCalls = 1
    /\ outcome.priorAccessor # NoAttr
    /\ inst.dict.pandera = outcome.priorAccessor
    /\ CarriesBuiltSchema

----------------------------------------------------------------------------
(* AnnotationInfo on its own.                                              *)

SpecAnn == Init /\ [][NextAnn]_vars


Parsed == info.raised # "unset"

\* The annotation is an optional: a union with NoneType among its members.
IsUnionWithNone(tp) ==
    /\ IsUnionType(tp)
    /\ \E i \in DOMAIN tp.args : tp.args[i] = NoneTypeCls

\* C6, as claimed: for a union containing NoneType, optional is true and
\* raw_annotation, and what is derived from it, is a non-null member and is
\* never NoneType, wherever NoneType stands among the members.
C6_NoneStripped ==
    (Parsed /\ IsUnionWithNone(annotation)) =>
        /\ info.optional
        /\ info.raw_annotation # NoneTypeCls
        /\ \E i \in DOMAIN annotation.args :
              annotation.args[i] = info.raw_annotation
        /\ info.origin # NoneTypeCls
        /\ info.arg # NoneTypeCls
        /\ \A i \in DOMAIN info.args : info.args[i] # NoneTypeCls
        /\ info.default_dtype # NoneTypeCls

\* C7, as claimed: construction assigns every field and raises for no
\* annotation; when the annotation carries metadata and inspect.signature
\* fails on its first argument, metadata is None.
C7_NeverRaises ==
    Parsed =>
        /\ info.raised = "none"
        /\ info.assigned = AllFields
        /\ (GetMetadata(info.raw_annotation) # <<>>
              /\ Signature(GetArgs(info.raw_annotation)[1]) # "ok")
              => info.metadata = <<>>

\* The argument of the annotation that parsing goes on with, unwrapped of
\* metadata one level down.
UnwrappedArg(raw) ==
    LET a == IF GetArgs(raw) # <<>> THEN GetArgs(raw)[1] ELSE PyNone
    IN  IF GetMetadata(raw) = <<>> /\ GetMetadata(a) # <<>>
        THEN GetArgs(a)[1] ELSE a

\* type(v) of a literal value: the values here are strings
TypeOfValue(v) == Cls("str")

\* C8, as claimed: when the argument is a literal type, literal is true and
\* arg is the type of the literal's value, not the literal type and not the
\* value.
C8_ArgIsValueType ==
    (Parsed /\ IsLiteralType(UnwrappedArg(info.raw_annotation))) =>
        /\ info.literal
        /\ info.arg = TypeOfValue(UnwrappedArg(info.raw_annotation).args[1])

\* C8, amended: when the argument is a literal type, literal is true and arg
\* is the literal's first value itself, not the literal type; literal is
\* true in no other case.
C8_ArgIsFirstValue ==
    Parsed =>
        /\ IsLiteralType(UnwrappedArg(info.raw_annotation)) =>
              /\ info.raised = "none"
              /\ info.literal
              /\ info.arg = UnwrappedArg(info.raw_annotation).args[1]
              /\ info.arg.kind = "value"
        /\ info.literal => IsLiteralType(UnwrappedArg(info.raw_annotation))

\* Series[Literal["b", "a"]]: arg is "b".
C8_Witness ==
    /\ annotation = GenericOf("Series", <<LiteralOf(<<Val("b"), Val("a")>>)>>)
    /\ info.literal
    /\ info.arg = Val("b")

\* C9, as claimed: for a bare class, arg is the annotation itself, and
\* origin and args are None.
C9_BareClassIsArg ==
    (Parsed /\ annotation.kind = "class") =>
        /\ info.arg = annotation
        /\ info.origin = PyNone
        /\ info.args = <<>>

\* C9, amended: for a bare class, origin and args are None, and arg is the
\* annotation itself unless the class is a subclass of SeriesBase, for
\* which arg is Any.
C9_BareClassIsArgUnlessSeries ==
    (Parsed /\ annotation.kind = "class") =>
        /\ info.raised = "none"
        /\ info.origin = PyNone
        /\ info.args = <<>>
        /\ info.metadata = <<>>
        /\ info.arg = IF IsSubclass(annotation.name, "SeriesBase")
                      THEN AnyType ELSE annotation

C9_Witness ==
    /\ annotation = Cls("DatetimeTZDtype")
    /\ info.raised = "none"
    /\ info.arg = Cls("DatetimeTZDtype")

====
